---------------------------- MODULE Spec2Model ----------------------------
(***************************************************************************)
(* ship-package: the in-memory file tree (type tree), the Debian writer    *)
(* (type Deb) and the RPM lead writer (type RPM, RPMHeader).               *)
(*                                                                         *)
(* Strings are sequences of byte codes, so that Go's byte-wise string      *)
(* comparison, path.Dir, path.Base, path.Clean, strings.TrimPrefix and     *)
(* fmt's %d are computed rather than assumed.                              *)
(***************************************************************************)
EXTENDS Integers, Sequences, FiniteSets, TLC

(***************************************************************************)
(* Bytes and strings.                                                      *)
(***************************************************************************)
Slash == 47
Dot == 46

Min(a, b) == IF a <= b THEN a ELSE b

\* strings.HasPrefix / strings.HasSuffix / strings.TrimPrefix
HasPrefix(s, pre) == Len(s) >= Len(pre) /\ SubSeq(s, 1, Len(pre)) = pre
HasSuffix(s, suf) ==
    Len(s) >= Len(suf) /\ SubSeq(s, Len(s) - Len(suf) + 1, Len(s)) = suf
TrimPrefix(s, pre) ==
    IF HasPrefix(s, pre) THEN SubSeq(s, Len(pre) + 1, Len(s)) ELSE s

\* strings.LastIndex(s, "/"), 1-based; 0 when there is no slash.
LastSlash(s) ==
    LET idx == {k \in 1..Len(s) : s[k] = Slash}
    IN  IF idx = {} THEN 0 ELSE CHOOSE k \in idx : \A m \in idx : m <= k

\* Go's string order (operator <): byte-wise lexicographic.
StrLess(s, t) ==
    \E k \in 1..(Min(Len(s), Len(t)) + 1) :
        /\ \A m \in 1..(k - 1) : s[m] = t[m]
        /\ \/ k = Len(s) + 1 /\ k <= Len(t)
           \/ k <= Len(s) /\ k <= Len(t) /\ s[k] < t[k]

\* The slash-separated elements of s, empty ones included.
RECURSIVE SplitSlash(_)
SplitSlash(s) ==
    LET idx == {k \in 1..Len(s) : s[k] = Slash}
    IN  IF idx = {} THEN <<s>>
        ELSE LET k == CHOOSE x \in idx : \A m \in idx : x <= m
             IN  <<SubSeq(s, 1, k - 1)>> \o SplitSlash(SubSeq(s, k + 1, Len(s)))

RECURSIVE JoinSlash(_)
JoinSlash(elems) ==
    IF elems = <<>> THEN <<>>
    ELSE IF Len(elems) = 1 THEN elems[1]
    ELSE elems[1] \o <<Slash>> \o JoinSlash(Tail(elems))

\* path.Clean's element loop: "." and empty elements are dropped, ".."
\* removes the element before it, is dropped at the root of a rooted path
\* and is kept at the front of a relative one.
RECURSIVE CleanElems(_, _, _)
CleanElems(elems, out, rooted) ==
    IF elems = <<>> THEN out
    ELSE LET x == Head(elems)
             rest == Tail(elems)
         IN  IF x = <<>> \/ x = <<Dot>> THEN CleanElems(rest, out, rooted)
             ELSE IF x = <<Dot, Dot>>
             THEN IF out # <<>> /\ out[Len(out)] # <<Dot, Dot>>
                  THEN CleanElems(rest, SubSeq(out, 1, Len(out) - 1), rooted)
                  ELSE IF rooted THEN CleanElems(rest, out, rooted)
                  ELSE CleanElems(rest, Append(out, x), rooted)
             ELSE CleanElems(rest, Append(out, x), rooted)

\* path.Clean
PathClean(p) ==
    IF p = <<>> THEN <<Dot>>
    ELSE LET rooted == p[1] = Slash
             body == JoinSlash(CleanElems(SplitSlash(p), <<>>, rooted))
         IN  IF rooted THEN <<Slash>> \o body
             ELSE IF body = <<>> THEN <<Dot>> ELSE body

\* path.Dir: Clean of everything up to and including the last slash.
PathDir(p) == PathClean(SubSeq(p, 1, LastSlash(p)))

RECURSIVE TrimTrailingSlashes(_)
TrimTrailingSlashes(p) ==
    IF p # <<>> /\ p[Len(p)] = Slash
    THEN TrimTrailingSlashes(SubSeq(p, 1, Len(p) - 1))
    ELSE p

\* path.Base
PathBase(p) ==
    IF p = <<>> THEN <<Dot>>
    ELSE LET q == TrimTrailingSlashes(p)
             r == SubSeq(q, LastSlash(q) + 1, Len(q))
         IN  IF r = <<>> THEN <<Slash>> ELSE r

\* filepath.IsAbs on the platforms the program supports (slash-rooted).
IsAbs(p) == HasPrefix(p, <<Slash>>)


(***************************************************************************)
(* Inputs.  Paths are written out as byte codes:                           *)
(*   47 '/'   46 '.'   97 'a'   98 'b'   99 'c'   120 'x'                  *)
(***************************************************************************)
MaxFiles == 2

P_abs_a_b_c == <<47, 97, 47, 98, 47, 99>>     \* "/a/b/c"
P_abs_a_c == <<47, 97, 47, 99>>               \* "/a/c"
P_abs_b == <<47, 98>>                         \* "/b"
P_a_b == <<97, 47, 98>>                       \* "a/b"
P_b == <<98>>                                 \* "b"
P_a == <<97>>                                 \* "a"
P_abs_a == <<47, 97>>                         \* "/a"
P_x == <<120>>                                \* "x"
P_root == <<Slash>>                           \* "/"

\* Names handed to Add, absolute and package-root-relative.
AddPaths == {P_abs_a_b_c, P_abs_a_c, P_abs_b, P_a_b, P_b}
\* Permission modes handed to Add: 0644 and 0755.
Modes == {420, 493}
\* File contents handed to Add, each len bytes of the byte fill.
Contents == {[fill |-> 120, len |-> 600], [fill |-> 121, len |-> 1500]}
\* Wall-clock readings of time.Now().
Times == {1, 2}
\* Paths handed to Open, Lstat and ReadDir.
QueryPaths == {P_root, P_a, P_abs_a, P_a_b, P_b, P_abs_b, P_x}

Nil == [nil |-> TRUE]

\* Every order in which Go may range over a map with the key set S.
Orders(S) ==
    {o \in [1..Cardinality(S) -> S] : \A k \in S : \E n \in DOMAIN o : o[n] = k}

(***************************************************************************)
(* State.                                                                  *)
(***************************************************************************)
VARIABLES
    tree,            \* Deb.tree: name -> leaf{name, mode, data}
    added,           \* history: name -> the (mode, data) of the latest Add
    deb,             \* the Deb struct's metadata fields
    pc,              \* position of Deb.WriteTo
    now,             \* WriteTo's now
    dataTarball,     \* WriteTo's dataTarball (Nil until built)
    md5sums,         \* WriteTo's md5sums
    size,            \* WriteTo's size
    controlTarball,  \* WriteTo's controlTarball (Nil until built)
    sink,            \* what the io.Writer handed to Deb.WriteTo has received
    err,             \* the error WriteTo returns (Nil for none)
    prev,            \* history: the outputs of the latest successful WriteTo
                     \* of the present tree and metadata (Nil for none)
    ret,             \* the latest tree query and what it returned
    goarch, goos,    \* runtime.GOARCH, runtime.GOOS
    rpm,             \* the *RPM NewRPM returned (Nil before, or on failure)
    rpmErr,          \* the error of the latest RPM call
    rpmSink          \* the Write calls the io.Writer handed to RPM.WriteTo got

treeVars == <<tree, added>>
debVars == <<deb, pc, now, dataTarball, md5sums, size, controlTarball, sink, err, prev>>
rpmVars == <<rpm, rpmErr, rpmSink>>
envVars == <<goarch, goos>>
vars == <<tree, added, deb, pc, now, dataTarball, md5sums, size, controlTarball,
          sink, err, prev, ret, goarch, goos, rpm, rpmErr, rpmSink>>

(***************************************************************************)
(* type leaf, type tree                                                    *)
(***************************************************************************)
Leaf(name, mode, data) == [name |-> name, mode |-> mode, data |-> data]

\* The zero leaf a failed map lookup yields.
ZeroLeaf == [name |-> <<>>, mode |-> 0, data |-> [fill |-> 0, len |-> 0]]

\* t[name] = leaf{...}
TreePut(t, name, l) ==
    [n \in (DOMAIN t) \cup {name} |-> IF n = name THEN l ELSE t[n]]

\* len(leaf.data)
DataLen(data) == data.len

\* leaf.Checksum: the MD5 digest of the data, kept as a term over the data
\* (distinct contents have distinct digests).
Checksum(l) == <<"md5", l.data.fill, l.data.len>>

\* leafs.Less
Less(l1, l2) == StrLess(l1.name, l2.name)

RECURSIVE InsertSorted(_, _)
InsertSorted(sorted, l) ==
    IF sorted = <<>> THEN <<l>>
    ELSE IF Less(l, Head(sorted)) THEN <<l>> \o sorted
    ELSE <<Head(sorted)>> \o InsertSorted(Tail(sorted), l)

RECURSIVE SortFrom(_, _, _)
SortFrom(ls, k, sorted) ==
    IF k > Len(ls) THEN sorted
    ELSE SortFrom(ls, k + 1, InsertSorted(sorted, ls[k]))

\* The leafs in the order the map was ranged over (no sort).
Unsorted(ls) == ls

\* sort.Sort(leafs)
SortLeafs(ls) == SortFrom(ls, 1, <<>>)


(***************************************************************************)
(* type Deb                                                                *)
(***************************************************************************)
TypeReg == "TypeReg"
TypeDir == "TypeDir"

N_control == <<46, 47, 99, 111, 110, 116, 114, 111, 108>>     \* "./control"
N_md5sums == <<46, 47, 109, 100, 53, 115, 117, 109, 115>>     \* "./md5sums"
B_debian_binary == <<50, 46, 48, 10>>                         \* "2.0\n"

\* The package metadata the build driver hands to ParseMeta.
Metas ==
    {[Email |-> "dev@example.org", Homepage |-> "https://example.org",
      Summary |-> "demo tool", Description |-> "A longer text."]}

\* NewDeb
NewDeb(name, version, arch) ==
    [Package |-> name, Version |-> version, Conflicts |-> <<>>, Depends |-> <<>>,
     Section |-> "utils", Priority |-> "optional",
     Architecture |-> IF arch = "386" THEN "i386" ELSE arch,
     Homepage |-> "", Maintainer |-> "", Description |-> "",
     LongDescription |-> ""]

\* fmt's %d of a non-negative integer: its decimal digits, as bytes.
RECURSIVE Itoa(_)
Itoa(n) ==
    IF n < 10 THEN <<48 + n>> ELSE Itoa(n \div 10) \o <<48 + (n % 10)>>

\* Deb.control: the rendered template, one <<field, value>> per line, the
\* long description last.  strings.Join and text.Indent(text.Wrap(..)) are
\* kept as terms over their arguments.
DebControl(d, sz) ==
    << <<"Package", d.Package>>,
       <<"Version", d.Version>>,
       <<"Architecture", d.Architecture>>,
       <<"Maintainer", d.Maintainer>>,
       <<"Installed-Size", Itoa(sz)>>,
       <<"Conflicts", <<"Join", d.Conflicts>> >>,
       <<"Depends", <<"Join", d.Depends>> >>,
       <<"Section", d.Section>>,
       <<"Priority", d.Priority>>,
       <<"Homepage", d.Homepage>>,
       <<"Description", d.Description>>,
       <<"", IF d.LongDescription # ""
             THEN <<"Indent", <<"Wrap", d.LongDescription, 76>>, "  ">>
             ELSE <<>> >> >>

\* A tar header and the body written after it.
TarEntry(name, mode, mtime, sz, typeflag, body) ==
    [Name |-> name, Mode |-> mode, ModTime |-> mtime, Size |-> sz,
     Typeflag |-> typeflag, Body |-> body]

\* addTarDir: the directory headers written for name and, before it, for
\* every parent not yet in dirs.  Returns the tar stream and dirs.
RECURSIVE AddTarDir(_, _, _, _)
AddTarDir(t, w, name, dirs) ==
    IF name \in dirs THEN [w |-> w, dirs |-> dirs]
    ELSE LET parent == PathDir(name)
             climbs == name # <<Slash>> /\ name # parent
             up == IF climbs /\ parent \notin dirs
                   THEN AddTarDir(t, w, parent, dirs)
                   ELSE [w |-> w, dirs |-> dirs]
             full == IF climbs /\ ~HasSuffix(name, <<Slash>>)
                     THEN name \o <<Slash>>
                     ELSE name
             header == TarEntry(<<Dot>> \o full, 493, t, 0, TypeDir, <<>>)
         IN  [w |-> Append(up.w, header), dirs |-> up.dirs \cup {name}]

\* The mode createDataTarball gives a file's tar header.
FileHeaderMode(l) == 420

\* The name createDataTarball gives a file's tar header.
FileHeaderName(l) == IF IsAbs(l.name) THEN <<Dot>> \o l.name ELSE l.name

\* One md5sums line, "%x  %s\n".
Md5Line(l) == [digest |-> Checksum(l), name |-> l.name]

\* The body of createDataTarball's loop over the sorted leafs.
RECURSIVE DataLoop(_, _, _, _)
DataLoop(t, ls, k, st) ==
    IF k > Len(ls) THEN st
    ELSE LET l == ls[k]
             d == AddTarDir(t, st.out, PathDir(l.name), st.dirs)
             header == TarEntry(FileHeaderName(l), FileHeaderMode(l), t,
                                DataLen(l.data), TypeReg, l.data)
         IN  DataLoop(t, ls, k + 1,
                      [out |-> Append(d.w, header),
                       md5buf |-> Append(st.md5buf, Md5Line(l)),
                       size |-> st.size + DataLen(l.data),
                       dirs |-> d.dirs])

\* Deb.createDataTarball, the map ranged over in the given order.
CreateDataTarball(tr, order, t) ==
    LET ls == SortLeafs([k \in DOMAIN order |-> tr[order[k]]])
    IN  DataLoop(t, ls, 1, [out |-> <<>>, md5buf |-> <<>>, size |-> 0, dirs |-> {}])

\* size / 1024 on int64, size >= 0.
KiBCeil(sz) == (sz + 1023) \div 1024
KiB(sz) == sz \div 1024

\* Deb.createControlTarball: the entries of control.tar.gz.
CreateControlTarball(d, t, sz, sums) ==
    << TarEntry(N_control, 420, t, Len(DebControl(d, KiB(sz))), TypeReg,
                DebControl(d, KiB(sz))),
       TarEntry(N_md5sums, 420, t, Len(sums), TypeReg, sums) >>

\* ar.NewWriter(out): nothing is written to out.
NewWriterEager(out) == Append(out, [kind |-> "global"])
NewWriter(out) == out

\* ar.Writer.WriteGlobalHeader
WriteGlobalHeader(out) == Append(out, [kind |-> "global"])

\* addArFile: the member header, then the body.
AddArFile(out, t, name, body) ==
    out \o << [kind |-> "header", Name |-> name, Size |-> Len(body),
               Mode |-> 420, ModTime |-> t],
              [kind |-> "body", Name |-> name, Body |-> body] >>

\* The members Deb.WriteTo adds after the global header, in order.
WriteToMembersDataFirst == <<"debian-binary", "data.tar.gz", "control.tar.gz">>
WriteToMembers == <<"debian-binary", "control.tar.gz", "data.tar.gz">>

\* The body WriteTo hands to addArFile for a member.
MemberBody(name) ==
    IF name = "debian-binary" THEN B_debian_binary
    ELSE IF name = "control.tar.gz" THEN controlTarball.gz
    ELSE dataTarball.gz

(***************************************************************************)
(* Deb's operations.                                                       *)
(***************************************************************************)
\* Deb.Add
Add(name, mode, data) ==
    /\ pc = "idle"
    /\ Cardinality((DOMAIN tree) \cup {name}) <= MaxFiles
    /\ tree' = TreePut(tree, name, Leaf(name, mode, data))
    /\ added' = TreePut(added, name, [mode |-> mode, data |-> data])
    /\ prev' = Nil
    /\ ret' = Nil
    /\ UNCHANGED <<deb, pc, now, dataTarball, md5sums, size, controlTarball, sink, err>>
    /\ UNCHANGED <<envVars, rpmVars>>

\* Deb.ParseMeta
ParseMeta(meta) ==
    /\ pc = "idle"
    /\ deb' = [deb EXCEPT !.Maintainer = meta.Email, !.Homepage = meta.Homepage,
                          !.Description = meta.Summary,
                          !.LongDescription = meta.Description]
    /\ deb' # deb
    /\ prev' = Nil
    /\ UNCHANGED <<pc, now, dataTarball, md5sums, size, controlTarball, sink, err>>
    /\ UNCHANGED <<treeVars, ret, envVars, rpmVars>>

\* Deb.WriteTo, up to the return of createDataTarball.
WriteToData ==
    /\ pc = "idle"
    /\ \E t \in Times, order \in Orders(DOMAIN tree), fails \in BOOLEAN :
         LET r == CreateDataTarball(tree, order, t)
         IN  /\ now' = t
             /\ sink' = NewWriter(<<>>)
             /\ IF fails
                THEN /\ pc' = "failed"
                     /\ err' = [fn |-> "createDataTarball", what |-> "data.tar.gz"]
                     /\ UNCHANGED <<dataTarball, md5sums, size>>
                ELSE /\ pc' = "control"
                     /\ err' = Nil
                     /\ dataTarball' = [gz |-> r.out]
                     /\ md5sums' = r.md5buf
                     /\ size' = r.size
    /\ UNCHANGED <<deb, controlTarball, prev>>
    /\ UNCHANGED <<treeVars, ret, envVars, rpmVars>>

\* Deb.WriteTo, the call of createControlTarball.
WriteToControl ==
    /\ pc = "control"
    /\ \E fails \in BOOLEAN :
         IF fails
         THEN /\ pc' = "failed"
              /\ err' = [fn |-> "createControlTarball", what |-> "control.tar.gz"]
              /\ UNCHANGED controlTarball
         ELSE /\ pc' = "global"
              /\ controlTarball' = [gz |-> CreateControlTarball(deb, now, size, md5sums)]
              /\ UNCHANGED err
    /\ UNCHANGED <<deb, now, dataTarball, md5sums, size, sink, prev>>
    /\ UNCHANGED <<treeVars, ret, envVars, rpmVars>>

\* A write to the sink that fails may have written a part of the bytes.
FailedWrite(out) == {out, Append(out, [kind |-> "partial"])}

\* Deb.WriteTo, deb.WriteGlobalHeader().
WriteToGlobalHeader ==
    /\ pc = "global"
    /\ \/ /\ sink' = WriteGlobalHeader(sink)
          /\ pc' = WriteToMembers[1]
          /\ UNCHANGED err
       \/ /\ sink' \in FailedWrite(sink)
          /\ pc' = "failed"
          /\ err' = [fn |-> "WriteGlobalHeader", what |-> "ar header"]
    /\ UNCHANGED <<deb, now, dataTarball, md5sums, size, controlTarball, prev>>
    /\ UNCHANGED <<treeVars, ret, envVars, rpmVars>>

\* Deb.WriteTo, one addArFile call.
WriteToMember ==
    /\ \E k \in DOMAIN WriteToMembers :
         /\ pc = WriteToMembers[k]
         /\ \/ /\ sink' = AddArFile(sink, now, pc, MemberBody(pc))
               /\ pc' = IF k < Len(WriteToMembers) THEN WriteToMembers[k + 1] ELSE "done"
               /\ UNCHANGED err
            \/ /\ sink' \in FailedWrite(sink)
               /\ pc' = "failed"
               /\ err' = [fn |-> "addArFile", what |-> pc]
    /\ UNCHANGED <<deb, now, dataTarball, md5sums, size, controlTarball, prev>>
    /\ UNCHANGED <<treeVars, ret, envVars, rpmVars>>

\* The names, in stream order, of the file entries of a data tarball.
FileList(tarball) ==
    LET regs == {k \in DOMAIN tarball.gz : tarball.gz[k].Typeflag = TypeReg}
        nth[n \in 0..Cardinality(regs)] ==
            IF n = 0 THEN 0
            ELSE CHOOSE k \in regs : k > nth[n - 1] /\
                                     \A m \in regs : m > nth[n - 1] => k <= m
    IN  [n \in 1..Cardinality(regs) |-> tarball.gz[nth[n]].Name]

\* Deb.WriteTo returns; the caller may call again.
WriteToReturn ==
    /\ pc \in {"done", "failed"}
    /\ pc' = "idle"
    /\ prev' = IF pc = "done"
               THEN [files |-> FileList(dataTarball), md5sums |-> md5sums,
                     control |-> controlTarball.gz[1].Body]
               ELSE prev
    /\ now' = 0
    /\ dataTarball' = Nil
    /\ md5sums' = <<>>
    /\ size' = 0
    /\ controlTarball' = Nil
    /\ sink' = <<>>
    /\ err' = Nil
    /\ UNCHANGED <<deb, treeVars, ret, envVars, rpmVars>>


(***************************************************************************)
(* The tree as a file system: Open, Lstat, ReadDir.                        *)
(***************************************************************************)
\* filename
Filename(p) == TrimPrefix(p, <<Slash>>)

\* type info
Info(name, mode, dir) == [name |-> name, size |-> 0, mode |-> mode, dir |-> dir]

\* leaf.stat
LeafStat(l) == Info(l.name, l.mode, FALSE)

\* slashdir
Slashdir(p) ==
    LET d == PathDir(p)
    IN  IF d = <<Dot>> THEN <<Slash>>
        ELSE IF HasPrefix(p, <<Slash>>) THEN d
        ELSE <<Slash>> \o d

\* tree.Open
TreeOpen(t, p) ==
    IF Filename(p) \in DOMAIN t
    THEN [status |-> "ok", leaf |-> t[Filename(p)]]
    ELSE [status |-> "ErrNotExist"]

\* The inner for loop of tree.ReadDir for one leaf.  An iteration that
\* leaves every variable of the loop as it found it is repeated for ever:
\* hang is TRUE then.
RECURSIVE ReadDirWalk(_, _, _, _, _, _, _)
ReadDirWalk(p, l, ld, dir, last, e, i) ==
    IF ld = p
    THEN LET base == IF dir THEN last ELSE PathBase(l.name)
             fresh == base \notin DOMAIN i
             fi == IF dir THEN Info(base, 493, TRUE) ELSE LeafStat(l)
             e2 == IF fresh THEN Append(e, base) ELSE e
             i2 == IF fresh
                   THEN [b \in (DOMAIN i) \cup {base} |->
                            IF b = base THEN fi ELSE i[b]]
                   ELSE i
         IN  IF fresh
             THEN ReadDirWalk(p, l, ld, dir, last, e2, i2)
             ELSE [hang |-> TRUE, e |-> e, i |-> i]
    ELSE IF ld = <<Slash>>
    THEN [hang |-> FALSE, e |-> e, i |-> i]
    ELSE ReadDirWalk(p, l, PathDir(ld), TRUE, PathBase(ld), e, i)

\* The range over the tree of tree.ReadDir, in the given order.
RECURSIVE ReadDirRange(_, _, _, _, _, _)
ReadDirRange(t, order, k, p, e, i) ==
    IF k > Len(order) THEN [hang |-> FALSE, e |-> e, i |-> i]
    ELSE LET l == t[order[k]]
             w == ReadDirWalk(p, l, Slashdir(order[k]), FALSE, <<>>, e, i)
         IN  IF w.hang THEN w
             ELSE ReadDirRange(t, order, k + 1, p, w.e, w.i)

RECURSIVE InsertString(_, _)
InsertString(sorted, x) ==
    IF sorted = <<>> THEN <<x>>
    ELSE IF StrLess(x, Head(sorted)) THEN <<x>> \o sorted
    ELSE <<Head(sorted)>> \o InsertString(Tail(sorted), x)

\* sort.Strings
RECURSIVE SortStrings(_)
SortStrings(e) ==
    IF e = <<>> THEN <<>>
    ELSE InsertString(SortStrings(SubSeq(e, 1, Len(e) - 1)), e[Len(e)])

\* tree.ReadDir, the map ranged over in the given order.
TreeReadDir(t, order, p0) ==
    LET r == ReadDirRange(t, order, 1, PathClean(p0), <<>>, <<>>)
    IN  IF r.hang THEN [status |-> "diverges"]
        ELSE IF Len(r.e) = 0 THEN [status |-> "ErrNotExist"]
        ELSE LET sorted == SortStrings(r.e)
             IN  [status |-> "ok",
                  list |-> [k \in DOMAIN sorted |-> r.i[sorted[k]]]]

\* tree.Lstat
TreeLstat(t, order, p) ==
    IF Filename(p) \in DOMAIN t
    THEN [status |-> "ok", info |-> LeafStat(t[Filename(p)])]
    ELSE LET d == TreeReadDir(t, order, p)
         IN  IF d.status = "diverges" THEN [status |-> "diverges"]
             ELSE IF d.status = "ok" /\ Len(d.list) > 0
             THEN [status |-> "ok", info |-> Info(p, 493, TRUE)]
             ELSE [status |-> "ok", info |-> LeafStat(ZeroLeaf)]

Open(p) ==
    /\ ret' = [op |-> "Open", arg |-> p, out |-> TreeOpen(tree, p)]
    /\ UNCHANGED <<treeVars, debVars, envVars, rpmVars>>

Lstat(p) ==
    /\ \E order \in Orders(DOMAIN tree) :
         ret' = [op |-> "Lstat", arg |-> p, out |-> TreeLstat(tree, order, p)]
    /\ UNCHANGED <<treeVars, debVars, envVars, rpmVars>>

ReadDir(p) ==
    /\ \E order \in Orders(DOMAIN tree) :
         ret' = [op |-> "ReadDir", arg |-> p, out |-> TreeReadDir(tree, order, p)]
    /\ UNCHANGED <<treeVars, debVars, envVars, rpmVars>>


(***************************************************************************)
(* type RPM, type RPMHeader                                                *)
(***************************************************************************)
rpmMagic == <<237, 171, 238, 219>>            \* 0xed 0xab 0xee 0xdb
binaryRPM == 0
NameField == 66
NameCopy == 65
ReservedField == 16

\* rpmArch, rpmOS
rpmArch == [a \in {"386", "amd64", "arm"} |-> IF a = "arm" THEN 12 ELSE 1]
rpmOS ==
    [o \in {"linux", "freebsd", "darwin"} |->
        IF o = "linux" THEN 1 ELSE IF o = "freebsd" THEN 8 ELSE 21]

\* The platforms the program may be built for and run on.
GoArchs == {"386", "amd64", "arm", "sparc"}
GoOSs == {"linux", "freebsd", "darwin", "windows"}

S_i386 == <<105, 51, 56, 54>>                 \* "i386"
S_x86_64 == <<120, 56, 54, 95, 54, 52>>       \* "x86_64"
S_rpm == <<46, 114, 112, 109>>                \* ".rpm"

\* Package names handed to NewRPM: n bytes 'p', n around the width of the
\* header's name field less the rest of RPM.Name().
RPMPackages == {[k \in 1..n |-> 112] : n \in {1, 51, 52, 53, 54, 55, 60}}
\* Versions handed to NewRPM: "1" and "2".
RPMVersions == {<<49>>, <<50>>}

\* RPM.Name: "%s-%s.%s.rpm"
RPMName(r) == r.Package \o <<45>> \o r.Version \o <<Dot>> \o r.Arch \o S_rpm

\* uint8(x >> 8), uint8(x) of a uint16, in the order WriteTo buffers them.
U16LittleEndian(x) == <<x % 256, (x \div 256) % 256>>
U16(x) == <<(x \div 256) % 256, x % 256>>

Zeros(n) == [k \in 1..n |-> 0]

\* newRPMHeader; Nil stands for the returned error.
NewRPMHeader(name, arch, os) ==
    IF arch \notin DOMAIN rpmArch
    THEN [err |-> <<"rpm: unsupported architecture", arch>>]
    ELSE IF os \notin DOMAIN rpmOS
    THEN [err |-> <<"rpm: unsupported operating system", os>>]
    ELSE [err |-> Nil,
          h |-> [Magic |-> rpmMagic, Major |-> 3, Minor |-> 0, Type |-> binaryRPM,
                 Arch |-> rpmArch[arch],
                 Name |-> [k \in 1..NameField |->
                              IF k <= NameCopy /\ k <= Len(name) THEN name[k] ELSE 0],
                 OS |-> rpmOS[os], SignatureType |-> 0,
                 Reserved |-> Zeros(ReservedField)]]

\* RPMHeader.WriteTo: the buffer handed to w.Write.
RPMHeaderBytes(h) ==
    h.Magic \o <<h.Major, h.Minor>> \o U16(h.Type) \o U16(h.Arch) \o h.Name
        \o U16(h.OS) \o U16(h.SignatureType) \o h.Reserved

\* NewRPM
NewRPM(name, version) ==
    /\ rpm = Nil
    /\ rpmErr = Nil
    /\ IF goarch \notin {"386", "amd64"}
       THEN /\ rpmErr' = <<"rpm: unsupported architecture", goarch>>
            /\ UNCHANGED rpm
       ELSE LET r == [Package |-> name, Version |-> version,
                      Arch |-> IF goarch = "386" THEN S_i386 ELSE S_x86_64]
                hd == NewRPMHeader(RPMName(r), goarch, goos)
            IN  IF hd.err # Nil
                THEN /\ rpmErr' = hd.err
                     /\ UNCHANGED rpm
                ELSE /\ rpm' = [Package |-> r.Package, Version |-> r.Version,
                                Arch |-> r.Arch, header |-> hd.h]
                     /\ UNCHANGED rpmErr
    /\ UNCHANGED rpmSink
    /\ UNCHANGED <<treeVars, debVars, ret, envVars>>

\* RPM.WriteTo on a fresh writer: one w.Write call, which writes the whole
\* buffer or fails having written a part of it.
RPMWriteTo ==
    /\ rpm # Nil
    /\ LET buf == RPMHeaderBytes(rpm.header)
       IN  \/ /\ rpmSink' = <<buf>>
              /\ rpmErr' = Nil
           \/ /\ \E n \in {0, 4} : rpmSink' = <<SubSeq(buf, 1, n)>>
              /\ rpmErr' = <<"rpm: error writing header", "">>
    /\ UNCHANGED rpm
    /\ UNCHANGED <<treeVars, debVars, ret, envVars>>

(***************************************************************************)
(* Specifications.                                                         *)
(***************************************************************************)
EmptyTree == [n \in {} |-> Nil]

\* A Deb made by NewDeb("demo", "1.0"), nothing added, no call under way.
InitWith(arch, os) ==
    /\ goarch = arch
    /\ goos = os
    /\ tree = EmptyTree
    /\ added = EmptyTree
    /\ deb = NewDeb("demo", "1.0", arch)
    /\ pc = "idle"
    /\ now = 0
    /\ dataTarball = Nil
    /\ md5sums = <<>>
    /\ size = 0
    /\ controlTarball = Nil
    /\ sink = <<>>
    /\ err = Nil
    /\ prev = Nil
    /\ ret = Nil
    /\ rpm = Nil
    /\ rpmErr = Nil
    /\ rpmSink = <<>>

\* The Debian writer: Add, ParseMeta, WriteTo.
Init == \E arch \in {"amd64", "386"} : InitWith(arch, "linux")

Next ==
    \/ \E name \in AddPaths, mode \in Modes, data \in Contents : Add(name, mode, data)
    \/ \E meta \in Metas : ParseMeta(meta)
    \/ WriteToData
    \/ WriteToControl
    \/ WriteToGlobalHeader
    \/ WriteToMember
    \/ WriteToReturn

Spec == Init /\ [][Next]_vars

\* The tree as a file system: Add, then Open, Lstat and ReadDir.
TreeInit == InitWith("amd64", "linux")

TreeNext ==
    \/ \E name \in AddPaths, mode \in Modes, data \in Contents : Add(name, mode, data)
    \/ \E p \in QueryPaths : Open(p)
    \/ \E p \in QueryPaths : Lstat(p)
    \/ \E p \in QueryPaths : ReadDir(p)

TreeSpec == TreeInit /\ [][TreeNext]_vars

\* The RPM writer on every platform: NewRPM, WriteTo.
RPMInit == \E arch \in GoArchs, os \in GoOSs : InitWith(arch, os)

RPMNext ==
    \/ \E name \in RPMPackages, version \in RPMVersions : NewRPM(name, version)
    \/ RPMWriteTo

RPMSpec == RPMInit /\ [][RPMNext]_vars


(***************************************************************************)
(* What a reader of the produced streams sees.                             *)
(***************************************************************************)
\* A tar entry name or an added path as a path below the package root:
\* without the leading "./" or "/" and without trailing slashes.
RelName(n) ==
    TrimTrailingSlashes(TrimPrefix(TrimPrefix(n, <<Dot, Slash>>), <<Slash>>))

\* The ancestor directories of a path below the package root: "a" and
\* "a/b" for "a/b/c".
Ancestors(rel) == {SubSeq(rel, 1, k - 1) : k \in {m \in 1..Len(rel) : rel[m] = Slash}}

\* The elements of the set S of strings in ascending order.
SortedNames(S) ==
    CHOOSE o \in Orders(S) : \A k \in 1..(Len(o) - 1) : StrLess(o[k], o[k + 1])

RECURSIVE Atoi(_)
Atoi(digits) ==
    IF digits = <<>> THEN 0
    ELSE 10 * Atoi(SubSeq(digits, 1, Len(digits) - 1)) + (digits[Len(digits)] - 48)

\* The value of a field of a rendered control file.
ControlField(text, field) == text[CHOOSE k \in DOMAIN text : text[k][1] = field][2]

RECURSIVE SumFileBytes(_)
SumFileBytes(entries) ==
    IF entries = <<>> THEN 0
    ELSE (IF Head(entries).Typeflag = TypeReg THEN DataLen(Head(entries).Body) ELSE 0)
         + SumFileBytes(Tail(entries))

(***************************************************************************)
(* C1: in data.tar.gz, every packaged file has an entry, and for every     *)
(* ancestor directory of its path a directory entry for that ancestor      *)
(* comes earlier in the stream than the file's entry.                      *)
(***************************************************************************)
C1_AncestorDirsPrecedeFile ==
    dataTarball # Nil =>
        \A p \in DOMAIN added :
            \E j \in DOMAIN dataTarball.gz :
                /\ dataTarball.gz[j].Typeflag = TypeReg
                /\ RelName(dataTarball.gz[j].Name) = RelName(p)
                /\ \A d \in Ancestors(RelName(p)) :
                       \E i \in 1..(j - 1) :
                           /\ dataTarball.gz[i].Typeflag = TypeDir
                           /\ RelName(dataTarball.gz[i].Name) = d

(***************************************************************************)
(* C2: every file entry of data.tar.gz carries the mode handed to Add for  *)
(* its path and a size equal to the length of its content.                 *)
(***************************************************************************)
C2_FileEntryModeAndSize ==
    dataTarball # Nil =>
        \A p \in DOMAIN added :
            \E j \in DOMAIN dataTarball.gz :
                /\ dataTarball.gz[j].Typeflag = TypeReg
                /\ RelName(dataTarball.gz[j].Name) = RelName(p)
                /\ dataTarball.gz[j].Mode = added[p].mode
                /\ dataTarball.gz[j].Size = DataLen(added[p].data)

(***************************************************************************)
(* C3: a successful WriteTo has written the ar global header and exactly   *)
(* the three members debian-binary, control.tar.gz, data.tar.gz in that    *)
(* order, and control.tar.gz holds exactly control and md5sums, in that    *)
(* order.                                                                  *)
(***************************************************************************)
C3_ArMembersInOrder ==
    pc = "done" =>
        /\ Len(sink) = 7
        /\ sink[1].kind = "global"
        /\ \A k \in 1..3 :
               /\ sink[2 * k].kind = "header"
               /\ sink[2 * k].Name = <<"debian-binary", "control.tar.gz", "data.tar.gz">>[k]
               /\ sink[2 * k + 1].kind = "body"
               /\ sink[2 * k + 1].Name = sink[2 * k].Name
        /\ sink[3].Body = <<50, 46, 48, 10>>
        /\ [k \in DOMAIN sink[5].Body |-> RelName(sink[5].Body[k].Name)]
               = << <<99, 111, 110, 116, 114, 111, 108>>,
                    <<109, 100, 53, 115, 117, 109, 115>> >>
        /\ sink[7].Body = dataTarball.gz

C3_Witness == pc = "done" /\ Cardinality(DOMAIN tree) = 2

(***************************************************************************)
(* C4: the sink receives nothing before data.tar.gz and control.tar.gz     *)
(* have both been built; when building either fails, WriteTo returns that  *)
(* error and the sink has received nothing.                                *)
(***************************************************************************)
C4_NothingWrittenBeforeBuilt ==
    /\ sink # <<>> => dataTarball # Nil /\ controlTarball # Nil
    /\ pc = "failed" => err # Nil
    /\ (pc = "failed" /\ err.fn \in {"createDataTarball", "createControlTarball"})
           => sink = <<>>

C4_Witness ==
    /\ pc = "failed"
    /\ err.fn = "createControlTarball"
    /\ dataTarball # Nil
    /\ DOMAIN tree # {}

(***************************************************************************)
(* C5: the file list of data.tar.gz, the md5sums lines and the control     *)
(* text are decided by the set of entries and the metadata alone: the      *)
(* files and the checksum lines come in ascending path order, one per      *)
(* entry, and a second WriteTo of the same tree and metadata yields the    *)
(* same three.                                                             *)
(***************************************************************************)
C5_OutputDecidedByEntries ==
    pc = "done" =>
        LET sorted == SortedNames(DOMAIN added)
            files == FileList(dataTarball)
        IN  /\ [k \in DOMAIN files |-> RelName(files[k])]
                   = [k \in DOMAIN sorted |-> RelName(sorted[k])]
            /\ [k \in DOMAIN md5sums |-> md5sums[k].name] = sorted
            /\ \A k \in DOMAIN md5sums :
                   md5sums[k].digest =
                       <<"md5", added[sorted[k]].data.fill, added[sorted[k]].data.len>>
            /\ prev # Nil =>
                   /\ prev.files = files
                   /\ prev.md5sums = md5sums
                   /\ prev.control = controlTarball.gz[1].Body

C5_Witness == pc = "done" /\ prev # Nil /\ Cardinality(DOMAIN tree) = 2

(***************************************************************************)
(* C6: the Installed-Size of the control file is floor(S / 1024), S the    *)
(* sum of the content lengths of the file entries of data.tar.gz.          *)
(***************************************************************************)
C6_InstalledSizeIsKiB ==
    controlTarball # Nil =>
        Atoi(ControlField(controlTarball.gz[1].Body, "Installed-Size"))
            = SumFileBytes(dataTarball.gz) \div 1024

C6_Witness ==
    /\ controlTarball # Nil
    /\ SumFileBytes(dataTarball.gz) > 2048
    /\ SumFileBytes(dataTarball.gz) % 1024 # 0

(***************************************************************************)
(* C7: on a non-empty tree ReadDir("/") returns each top-level name once,  *)
(* in ascending order, marked a directory exactly when entries lie beneath *)
(* it.                                                                     *)
(***************************************************************************)
TopNames(t) == {Head(SplitSlash(RelName(p))) : p \in DOMAIN t}

C7_ReadDirRootListsTopLevel ==
    (ret # Nil /\ ret.op = "ReadDir" /\ ret.arg = P_root /\ DOMAIN tree # {}) =>
        /\ ret.out.status = "ok"
        /\ [k \in DOMAIN ret.out.list |-> RelName(ret.out.list[k].name)]
               = SortedNames(TopNames(tree))
        /\ \A k \in DOMAIN ret.out.list :
               ret.out.list[k].dir
                   = (\E p \in DOMAIN tree :
                          RelName(ret.out.list[k].name) \in Ancestors(RelName(p)))

(***************************************************************************)
(* C8: Lstat(p) returns the file info (not a directory, the added mode)    *)
(* when p is a stored entry, a directory descriptor of mode 0755 when p is *)
(* a proper ancestor of a stored entry, and fails with NotFound otherwise. *)
(***************************************************************************)
IsProperAncestor(p, t) ==
    \E q \in DOMAIN t : RelName(p) \in Ancestors(RelName(q)) \cup {<<>>}

C8_LstatFileDirOrNotFound ==
    (ret # Nil /\ ret.op = "Lstat") =>
        IF ret.arg \in DOMAIN added
        THEN /\ ret.out.status = "ok"
             /\ ~ret.out.info.dir
             /\ ret.out.info.mode = added[ret.arg].mode
        ELSE IF IsProperAncestor(ret.arg, added)
        THEN /\ ret.out.status = "ok"
             /\ ret.out.info.dir
             /\ ret.out.info.mode = 493
        ELSE ret.out.status = "ErrNotExist"

(***************************************************************************)
(* C9: the tree holds one entry per added path; Open(p) returns the mode   *)
(* and content of the latest Add of exactly p, a leading slash included,   *)
(* and fails with NotFound for a path never added.                         *)
(***************************************************************************)
C9_OpenReturnsLatestAdd ==
    /\ DOMAIN tree = DOMAIN added
    /\ (ret # Nil /\ ret.op = "Open") =>
           IF ret.arg \in DOMAIN added
           THEN /\ ret.out.status = "ok"
                /\ ret.out.leaf.mode = added[ret.arg].mode
                /\ ret.out.leaf.data = added[ret.arg].data
           ELSE ret.out.status = "ErrNotExist"

ArchCode == IF goarch = "arm" THEN 12 ELSE 1
OSCode == IF goos = "linux" THEN 1 ELSE IF goos = "freebsd" THEN 8 ELSE 21

(***************************************************************************)
(* C10, as stated: a successful RPM WriteTo hands the sink exactly one     *)
(* record, and the record is exactly 112 bytes long.                       *)
(***************************************************************************)
C10_RecordIs112Bytes ==
    (rpm # Nil /\ rpmErr = Nil /\ rpmSink # <<>>) =>
        Len(rpmSink) = 1 /\ Len(rpmSink[1]) = 112

(***************************************************************************)
(* C10, amended: a successful RPM WriteTo hands the sink one record of 96  *)
(* bytes: the magic ed ab ee db, major 3, minor 0, the 2-byte type, the    *)
(* 2-byte architecture code, the 66-byte name, the 2-byte OS code, the     *)
(* 2-byte signature type 0 and 16 zero bytes, the 2-byte fields            *)
(* big-endian.                                                             *)
(***************************************************************************)
C10_LeadRecordLayout ==
    (rpm # Nil /\ rpmErr = Nil /\ rpmSink # <<>>) =>
        /\ Len(rpmSink) = 1
        /\ LET b == rpmSink[1]
               name == RPMName(rpm)
           IN  /\ Len(b) = 96
               /\ SubSeq(b, 1, 4) = <<237, 171, 238, 219>>
               /\ b[5] = 3
               /\ b[6] = 0
               /\ 256 * b[7] + b[8] = 0
               /\ 256 * b[9] + b[10] = ArchCode
               /\ \A k \in 1..66 :
                      b[10 + k] = IF k <= Len(name) /\ k <= 65 THEN name[k] ELSE 0
               /\ 256 * b[77] + b[78] = OSCode
               /\ 256 * b[79] + b[80] = 0
               /\ \A k \in 81..96 : b[k] = 0
               /\ \A k \in 1..96 : b[k] \in 0..255

C10_Witness ==
    /\ rpm # Nil
    /\ rpmErr = Nil
    /\ rpmSink # <<>>
    /\ Len(RPMName(rpm)) > 66
    /\ goos = "darwin"


(***************************************************************************)
(* C11: NewRPM returns a writer exactly when GOARCH is one of 386, amd64,  *)
(* arm and GOOS is one of linux, freebsd, darwin; otherwise it returns an  *)
(* error and no writer, and nothing is written.                            *)
(***************************************************************************)
C11_NewRPMSucceedsOnSupportedPlatform ==
    (rpm # Nil \/ rpmErr # Nil) =>
        /\ (rpm # Nil) <=> (/\ goarch \in {"386", "amd64", "arm"}
                            /\ goos \in {"linux", "freebsd", "darwin"})
        /\ rpm = Nil => rpmErr # Nil /\ rpmSink = <<>>

(***************************************************************************)
(* C12: ReadDir and Lstat return, with a result or with NotFound, for      *)
(* every tree and every path, also when the directory chain of an entry    *)
(* reaches the path asked for.                                             *)
(***************************************************************************)
C12_ReadDirAndLstatReturn ==
    (ret # Nil /\ ret.op \in {"ReadDir", "Lstat"}) =>
        ret.out.status \in {"ok", "ErrNotExist"}

(***************************************************************************)
(* C13: in data.tar.gz no two directory entries have the same name; each   *)
(* is named "./" or "./<dir>/" for the root or an ancestor directory <dir> *)
(* of the emitted name of some file entry, a path prefix of that name; no  *)
(* entry is named ".." or has an element "..".                             *)
(***************************************************************************)
DotRelativeDir(d) == IF d = <<>> THEN <<Dot, Slash>> ELSE <<Dot, Slash>> \o d \o <<Slash>>

C13_DirEntriesOnceAndInsideRoot ==
    dataTarball # Nil =>
        LET gz == dataTarball.gz
            dirsAt == {k \in DOMAIN gz : gz[k].Typeflag = TypeDir}
            filesAt == {k \in DOMAIN gz : gz[k].Typeflag = TypeReg}
        IN  /\ \A i \in dirsAt, k \in dirsAt : i # k => gz[i].Name # gz[k].Name
            /\ \A i \in dirsAt :
                   \E j \in filesAt :
                       /\ \E d \in Ancestors(RelName(gz[j].Name)) \cup {<<>>} :
                              gz[i].Name = DotRelativeDir(d)
                       /\ HasPrefix(<<Dot, Slash>> \o RelName(gz[j].Name), gz[i].Name)
            /\ \A k \in DOMAIN gz :
                   \A n \in DOMAIN SplitSlash(gz[k].Name) :
                       SplitSlash(gz[k].Name)[n] # <<Dot, Dot>>

=============================================================================
